---- MODULE Spec2Model ----
(***************************************************************************)
(* Model of ConceptGraph.py: ConceptNode objects, ConceptEdge values and   *)
(* the ConceptGraph wrapper around a NetworkX DiGraph keyed by the nodes'  *)
(* id_networkx.  The WordNet corpus is an input of the program; a small    *)
(* lexicon stands for it.                                                  *)
(***************************************************************************)
EXTENDS FiniteSets, Integers, Sequences, TLC

\* Bound: how many times the ConceptNode constructor may run.
MaxObjects == 3

Range(s) == {s[i] : i \in DOMAIN s}

\* All orders in which list(a_set) can enumerate a set of strings.
ListsOf(S) == {s \in [1..Cardinality(S) -> S] : Range(s) = S}

(***************************************************************************)
(* The lexicon (nltk.corpus.wordnet) as the program consults it.           *)
(***************************************************************************)
SynsetNames == {"entity.n.01", "animal.n.01", "dog.n.01", "plant.n.01",
                "bank.n.01", "bank.n.02", "run.v.01"}

\* wn.synset(name).pos()
wn_pos(name) == IF name = "run.v.01" THEN "v" ELSE "n"

\* wn.synsets(descriptor): the synsets of a word, empty when unknown.
wn_synsets(descriptor) ==
    CASE descriptor = "entity"   -> <<"entity.n.01">>
      [] descriptor = "animal"   -> <<"animal.n.01">>
      [] descriptor = "creature" -> <<"animal.n.01">>
      [] descriptor = "dog"      -> <<"dog.n.01">>
      [] descriptor = "plant"    -> <<"plant.n.01">>
      [] descriptor = "bank"     -> <<"bank.n.01", "bank.n.02">>
      [] descriptor = "run"      -> <<"run.v.01">>
      [] OTHER                   -> <<>>

\* wn.synset(name).hypernym_paths()[0], as synset names, root first.
hypernym_path(name) ==
    CASE name = "entity.n.01" -> <<"entity.n.01">>
      [] name = "animal.n.01" -> <<"entity.n.01", "animal.n.01">>
      [] name = "dog.n.01"    -> <<"entity.n.01", "animal.n.01", "dog.n.01">>
      [] name = "plant.n.01"  -> <<"entity.n.01", "plant.n.01">>
      [] name = "bank.n.01"   -> <<"entity.n.01", "bank.n.01">>
      [] name = "bank.n.02"   -> <<"entity.n.01", "bank.n.02">>
      [] OTHER                -> <<name>>

(***************************************************************************)
(* Inputs.                                                                 *)
(***************************************************************************)
\* The concepts the caller builds directly, in this order: entity, animal,
\* and then either dog or a second concept for animal.
Vocabulary == << { <<{"entity"}, "entity.n.01">> },
                 { <<{"animal"}, "animal.n.01">> },
                 { <<{"dog"}, "dog.n.01">>, <<{"animal"}, "animal.n.01">> } >>

\* The (descriptors, name) pairs handed to the k-th run of the ConceptNode
\* constructor: the next concept of the vocabulary, or a descriptor that is
\* no synonym of the synset, no descriptor at all, an unknown synset name.
ConstructArgs(k) ==
    (IF k \in DOMAIN Vocabulary THEN Vocabulary[k] ELSE {})
        \cup { <<{"dog"}, "animal.n.01">>,
                <<{}, "dog.n.01">>,
                <<{"dog"}, "dog.x.99">> }

\* Words handed to add_descriptor_as_new_node.
Words == {"plant", "bank", "xyzzy", "run"}

\* The optional 'info' of a ConceptEdge; "None" is Python's None.
EdgeInfos == {"None"}

VARIABLES
    siguiente_id,   \* ConceptNode.siguiente_id, the class-wide counter
    heap,           \* the ConceptNode objects built so far, by id_networkx
    nodes,          \* ConceptGraph.nodes: a Python set of ConceptNode
    edges,          \* ConceptGraph.edges: a Python set of ConceptEdge
    graph_nodes,    \* vertices of ConceptGraph.graph (a DiGraph)
    graph_edges,    \* edges of ConceptGraph.graph, pairs of vertices
    last            \* the method called last and how it ended

vars == <<siguiente_id, heap, nodes, edges, graph_nodes, graph_edges, last>>

\* The ConceptGraph object as one value.
self == [nodes |-> nodes, edges |-> edges,
         graph_nodes |-> graph_nodes, graph_edges |-> graph_edges]

(***************************************************************************)
(* ConceptNode                                                             *)
(***************************************************************************)
valid_types(descriptors, name) == Cardinality(descriptors) # 0

\* valid_args without the test that the synset is a noun.
valid_args_no_pos_check(descriptors, name) ==
    IF Cardinality(descriptors) = 0 THEN "False"
    ELSE IF name \notin SynsetNames THEN "raise"
    ELSE IF \A x \in descriptors :
                Len(wn_synsets(x)) # 0 /\ name \in Range(wn_synsets(x))
         THEN "True" ELSE "False"

\* "raise" stands for the exception of wn.synset(name) on an unknown name.
valid_args(descriptors, name) ==
    IF Cardinality(descriptors) = 0 THEN "False"
    ELSE IF name \notin SynsetNames THEN "raise"
    ELSE IF wn_pos(name) # "n" THEN "False"
    ELSE IF \A x \in descriptors :
                Len(wn_synsets(x)) # 0 /\ name \in Range(wn_synsets(x))
         THEN "True" ELSE "False"

\* How the constructor ends.
ConceptNode_result(descriptors, name) ==
    IF ~valid_types(descriptors, name) THEN "InvalidArgumentType"
    ELSE IF valid_args(descriptors, name) # "True" THEN "NotASynsetName"
    ELSE "ok"

ConceptNode_hash(H, x) == x

ConceptNode_eq(H, x, y) ==
    /\ H[x].descriptors = H[y].descriptors
    /\ H[x].synset_name = H[y].synset_name

\* new_node in a Python set of ConceptNode: same hash, then identity or ==.
NodeSetContains(H, S, x) ==
    \E y \in S : /\ ConceptNode_hash(H, y) = ConceptNode_hash(H, x)
                 /\ (y = x \/ ConceptNode_eq(H, y, x))

NodeSetAdd(H, S, x) == IF NodeSetContains(H, S, x) THEN S ELSE S \cup {x}

(***************************************************************************)
(* ConceptEdge                                                             *)
(***************************************************************************)
ConceptEdge(node1, node2, info) ==
    [source |-> node1, target |-> node2, label |-> info]

ConceptEdge_hash(H, e) ==
    <<ConceptNode_hash(H, e.source), ConceptNode_hash(H, e.target)>>

\* (a and b and c) if self.label is not None else True
ConceptEdge_eq(H, e, other) ==
    IF e.label # "None"
    THEN /\ ConceptNode_eq(H, e.source, other.source)
         /\ ConceptNode_eq(H, e.target, other.target)
         /\ e.label = other.label
    ELSE TRUE

EdgeSetContains(H, S, e) ==
    \E y \in S : /\ ConceptEdge_hash(H, y) = ConceptEdge_hash(H, e)
                 /\ (y = e \/ ConceptEdge_eq(H, y, e))

EdgeSetAdd(H, S, e) == IF EdgeSetContains(H, S, e) THEN S ELSE S \cup {e}

(***************************************************************************)
(* The wrapped networkx.DiGraph                                            *)
(***************************************************************************)
\* Python values used as look-up keys: an int and a str never compare equal.
py_int(n) == <<"int", n>>
py_str(s) == <<"str", s>>

\* key in self.graph: the vertices are the int id_networkx of the nodes.
DiGraph_contains(G, key) == key[1] = "int" /\ key[2] \in G.graph_nodes

\* graph.add_node(n): n becomes a vertex.
DiGraph_add_node(G, n) == [G EXCEPT !.graph_nodes = @ \cup {n}]

\* graph.add_edge(u, v): u and v become vertices if they were not.
DiGraph_add_edge(G, u, v) ==
    [G EXCEPT !.graph_nodes = @ \cup {u, v},
              !.graph_edges = @ \cup {<<u, v>>}]

DiGraph_remove_edge(G, u, v) == [G EXCEPT !.graph_edges = @ \ {<<u, v>>}]

RECURSIVE BackwardClosure(_, _)
BackwardClosure(E, S) ==
    LET N == S \cup {e[1] : e \in {f \in E : f[2] \in S}}
    IN  IF N = S THEN S ELSE BackwardClosure(E, N)

\* ancestors that stops at the direct predecessors.
ancestors_one_step(G, v) ==
    {e[1] : e \in {f \in G.graph_edges : f[2] = v}} \ {v}

\* nx.algorithms.dag.ancestors(graph, v): every vertex with a path to v,
\* v itself left out.
ancestors(G, v) == BackwardClosure(G.graph_edges, {v}) \ {v}

\* nx.topological_generations(graph), run to its end: the generations in
\* order, and whether the generator raised NetworkXUnfeasible after them.
RECURSIVE Generations(_, _, _)
Generations(E, remaining, acc) ==
    LET zero_indegree ==
            {v \in remaining : ~\E e \in E : e[2] = v /\ e[1] \in remaining}
    IN  IF zero_indegree = {}
        THEN [gens |-> acc, unfeasible |-> remaining # {}]
        ELSE Generations(E, remaining \ zero_indegree,
                         Append(acc, zero_indegree))

topological_generations(G) == Generations(G.graph_edges, G.graph_nodes, <<>>)

(***************************************************************************)
(* ConceptGraph                                                            *)
(***************************************************************************)
\* ConceptGraph.__contains__ for a ConceptNode.
contains_node(H, G, elem) ==
    NodeSetContains(H, G.nodes, elem) /\ DiGraph_contains(G, py_int(elem))

\* Returns "True" or the error raised.
valid_graph_node(H, G, new_node) ==
    IF \E descriptor \in Range(H[new_node].descriptors) :
           DiGraph_contains(G, py_str(descriptor))
    THEN "DuplicateLabel"
    ELSE IF DiGraph_contains(G, py_str(H[new_node].synset_name))
    THEN "DuplicateSense"
    ELSE "True"

\* add_node: the graph afterwards and how the call ended.
add_node(H, G, new_node) ==
    LET v == valid_graph_node(H, G, new_node)
    IN  IF v # "True" THEN [G |-> G, result |-> v]
        ELSE [G |-> [DiGraph_add_node(G, new_node)
                        EXCEPT !.nodes = NodeSetAdd(H, @, new_node)],
              result |-> "ok"]

\* valid_graph_edge without its last check, the one for a cycle.
valid_graph_edge_no_cycle_check(H, G, new_edge) ==
    IF ~contains_node(H, G, new_edge.source) THEN "NodeNotFound"
    ELSE IF ~contains_node(H, G, new_edge.target) THEN "NodeNotFound"
    ELSE IF H[new_edge.source].synset_name
              \notin Range(hypernym_path(H[new_edge.target].synset_name))
    THEN "NotAHypernym"
    ELSE IF new_edge.source \in ancestors(G, new_edge.target)
    THEN "RedundantEdge"
    ELSE "True"

\* Returns "True" or the error raised.
valid_graph_edge(H, G, new_edge) ==
    IF ~contains_node(H, G, new_edge.source) THEN "NodeNotFound"
    ELSE IF ~contains_node(H, G, new_edge.target) THEN "NodeNotFound"
    ELSE IF H[new_edge.source].synset_name
              \notin Range(hypernym_path(H[new_edge.target].synset_name))
    THEN "NotAHypernym"
    ELSE IF new_edge.source \in ancestors(G, new_edge.target)
    THEN "RedundantEdge"
    ELSE IF new_edge.target \in ancestors(G, new_edge.source)
    THEN "CycleDetected"
    ELSE "True"

\* The root test off by one.
another_root_off_by_one(generations) == Cardinality(generations[1]) > 2

\* len(generation 0) > 1
another_root(generations) == Cardinality(generations[1]) > 1

\* add_edge that commits the edge without looking at the roots.
add_edge_no_root_check(H, G, new_edge) ==
    LET v  == valid_graph_edge(H, G, new_edge)
        G1 == DiGraph_add_edge(G, new_edge.source, new_edge.target)
    IN  IF v # "True" THEN [G |-> G, result |-> v]
        ELSE [G |-> [G1 EXCEPT !.edges = EdgeSetAdd(H, @, new_edge)],
              result |-> "ok"]

\* add_edge: the graph afterwards and how the call ended.
add_edge(H, G, new_edge) ==
    LET v  == valid_graph_edge(H, G, new_edge)
        G1 == DiGraph_add_edge(G, new_edge.source, new_edge.target)
        tg == topological_generations(G1)
    IN  IF v # "True" THEN [G |-> G, result |-> v]
        ELSE IF tg.unfeasible THEN [G |-> G1, result |-> "NetworkXUnfeasible"]
        ELSE IF Len(tg.gens) = 0 THEN [G |-> G1, result |-> "IndexError"]
        ELSE IF another_root(tg.gens)
        THEN [G |-> DiGraph_remove_edge(G1, new_edge.source, new_edge.target),
              result |-> "MultipleRoots"]
        ELSE [G |-> [G1 EXCEPT !.edges = EdgeSetAdd(H, @, new_edge)],
              result |-> "ok"]

\* from_descriptor up to the constructor call: the synset name chosen, or
\* the error raised.
from_descriptor(descriptor) ==
    LET synsets == wn_synsets(descriptor)
    IN  IF Len(synsets) = 0 THEN [error |-> "UnknownLabel", name |-> ""]
        ELSE IF Len(synsets) = 1 THEN [error |-> "", name |-> synsets[1]]
        ELSE [error |-> "AmbiguousLabel", name |-> ""]

(***************************************************************************)
(* The operations as steps of the program.                                 *)
(***************************************************************************)
NoCall == [op |-> "none", result |-> ""]

Init ==
    /\ siguiente_id = 1
    /\ heap = <<>>
    /\ nodes = {}
    /\ edges = {}
    /\ graph_nodes = {}
    /\ graph_edges = {}
    /\ last = NoCall

SetGraph(G) ==
    /\ nodes' = G.nodes
    /\ edges' = G.edges
    /\ graph_nodes' = G.graph_nodes
    /\ graph_edges' = G.graph_edges

\* ConceptNode(descriptors, name)
NewConceptNode ==
    \E args \in ConstructArgs(siguiente_id) :
      LET r == ConceptNode_result(args[1], args[2]) IN
        /\ siguiente_id <= MaxObjects
        /\ siguiente_id' = siguiente_id + 1
        /\ \E ds \in ListsOf(args[1]) :
             heap' = IF r = "ok"
                     THEN heap @@ (siguiente_id :>
                            [descriptors |-> ds, synset_name |-> args[2]])
                     ELSE heap
        /\ last' = [op |-> "ConceptNode", result |-> r]
        /\ UNCHANGED <<nodes, edges, graph_nodes, graph_edges>>

\* graph.add_node(new_node)
AddNodeCall(new_node) ==
    LET r == add_node(heap, self, new_node) IN
      /\ SetGraph(r.G)
      /\ last' = [op |-> "add_node", result |-> r.result]
      /\ UNCHANGED <<siguiente_id, heap>>

AddNode == \E new_node \in DOMAIN heap : AddNodeCall(new_node)

\* graph.add_edge(ConceptEdge(source, target, info))
AddEdgeCall(source, target, info) ==
    LET r == add_edge(heap, self, ConceptEdge(source, target, info)) IN
      /\ SetGraph(r.G)
      /\ last' = [op |-> "add_edge", result |-> r.result]
      /\ UNCHANGED <<siguiente_id, heap>>

AddEdge ==
    \E source \in DOMAIN heap, target \in DOMAIN heap, info \in EdgeInfos :
        AddEdgeCall(source, target, info)

\* graph.add_descriptor_as_new_node(descriptor, parent_node)
AddDescriptorAsNewNode ==
    \E descriptor \in Words, parent_node \in DOMAIN heap :
      LET fd  == from_descriptor(descriptor)
          cr  == ConceptNode_result({descriptor}, fd.name)
          new == siguiente_id
          H1  == heap @@ (new :> [descriptors |-> <<descriptor>>,
                                  synset_name |-> fd.name])
          r1  == add_node(H1, self, new)
          r2  == add_edge(H1, r1.G, ConceptEdge(parent_node, new, "None"))
          call(res) == [op |-> "add_descriptor_as_new_node", result |-> res]
      IN
        IF ~contains_node(heap, self, parent_node)
        THEN /\ last' = call("NodeNotFound")
             /\ UNCHANGED <<siguiente_id, heap, nodes, edges,
                            graph_nodes, graph_edges>>
        ELSE IF fd.error # ""
        THEN /\ last' = call("printed")
             /\ UNCHANGED <<siguiente_id, heap, nodes, edges,
                            graph_nodes, graph_edges>>
        ELSE /\ siguiente_id <= MaxObjects
             /\ siguiente_id' = siguiente_id + 1
             /\ IF cr # "ok"
                THEN /\ last' = call("printed")
                     /\ UNCHANGED <<heap, nodes, edges,
                                    graph_nodes, graph_edges>>
                ELSE /\ heap' = H1
                     /\ IF r1.result # "ok"
                        THEN /\ SetGraph(r1.G)
                             /\ last' = call(r1.result)
                        ELSE /\ SetGraph(r2.G)
                             /\ last' = call(r2.result)

Next == NewConceptNode \/ AddNode \/ AddEdge \/ AddDescriptorAsNewNode

Spec == Init /\ [][Next]_vars

(***************************************************************************)
(* Vocabulary of the properties.                                           *)
(***************************************************************************)
Successors(E, u) == {e[2] : e \in {f \in E : f[1] = u}}

RECURSIVE ForwardClosure(_, _)
\* The vertices of S and all that the edges of E lead to from them.
ForwardClosure(E, S) ==
    LET N == S \cup UNION {Successors(E, u) : u \in S}
    IN  IF N = S THEN S ELSE ForwardClosure(E, N)

\* The vertices a walk of one edge or more of E leads to from u.
Descendants(E, u) == ForwardClosure(E, Successors(E, u))

\* v can be reached from u along one edge or more of the backing structure.
Reachable(u, v) == v \in Descendants(graph_edges, u)

\* A path u -> w -> ... -> v of two edges or more that does not come back to u.
LongerPath(u, v) ==
    LET E == {e \in graph_edges : e[1] # u /\ e[2] # u}
    IN  \E w \in Successors(graph_edges, u) \ {u, v} : v \in Descendants(E, w)

\* The vertices with no incoming edge.
Roots == {v \in graph_nodes : ~\E e \in graph_edges : e[2] = v}

\* c is a member of the graph.
Member(c) == c \in nodes /\ c \in graph_nodes

Labels(c) == Range(heap[c].descriptors)

\* The sense of s is on the hypernym path of the sense of t.
OnHypernymPath(s, t) ==
    heap[s].synset_name \in Range(hypernym_path(heap[t].synset_name))

GraphUnchanged ==
    UNCHANGED <<nodes, edges, graph_nodes, graph_edges>>

(***************************************************************************)
(* C1 - C10                                                                *)
(***************************************************************************)
\* C2: the backing structure has no directed cycle, self-loops included,
\* whatever calls were made and however they ended.
C2_Acyclic == \A v \in graph_nodes : ~Reachable(v, v)

\* C3: no two distinct Concepts in nodes share a label, and no two share a
\* canonical sense.
C3_DescriptorUniqueness ==
    \A x \in nodes : \A y \in nodes \ {x} :
        /\ Labels(x) \cap Labels(y) = {}
        /\ heap[x].synset_name # heap[y].synset_name

\* C1: the backing structure is its own transitive reduction: it holds no
\* edge (u, v) for which a path of two edges or more leads from u to v.
\* Stated for the graphs whose nodes share no label and no sense and that
\* hold no cycle, so that a violation owes nothing to C2 or C3.
C1_TransitiveReduction ==
    (C2_Acyclic /\ C3_DescriptorUniqueness)
    => \A e \in graph_edges : ~LongerPath(e[1], e[2])

\* C4: add_node of a Concept that shares a label (resp. only its canonical
\* sense) with another node of the graph fails with DuplicateLabel (resp.
\* DuplicateSense) and leaves nodes and the vertex set as they were.
C4_AddNodeRejectsDuplicate ==
    [][\A c \in DOMAIN heap :
         (AddNodeCall(c) /\ \E m \in nodes \ {c} :
              \/ Labels(m) \cap Labels(c) # {}
              \/ heap[m].synset_name = heap[c].synset_name)
         => /\ last'.result =
                 IF \E m \in nodes \ {c} : Labels(m) \cap Labels(c) # {}
                 THEN "DuplicateLabel" ELSE "DuplicateSense"
            /\ nodes' = nodes
            /\ graph_nodes' = graph_nodes]_vars

\* C5 as claimed: whenever the backing structure is non-empty, exactly one
\* vertex has in-degree zero.  Stated for the graphs that hold no cycle, so
\* that a violation owes nothing to C2.
C5_SingleRootAlways ==
    (graph_nodes # {} /\ C2_Acyclic) => Cardinality(Roots) = 1

\* C5 as amended: right after a successful add_edge or a successful
\* add_descriptor_as_new_node, exactly one vertex has in-degree zero.
C5_SingleRootAfterEdgeCommit ==
    (last.op \in {"add_edge", "add_descriptor_as_new_node"}
        /\ last.result = "ok")
    => Cardinality(Roots) = 1

\* A new node was attached under a parent and the graph has its one root.
C5_Witness ==
    /\ last = [op |-> "add_descriptor_as_new_node", result |-> "ok"]
    /\ Cardinality(graph_nodes) >= 2
    /\ Cardinality(Roots) = 1

\* C6: right after every add_edge call that returns successfully, the
\* backing structure has at most one vertex with in-degree zero.
C6_AtMostOneRootAfterAddEdge ==
    (last.op = "add_edge" /\ last.result = "ok") => Cardinality(Roots) <= 1

\* Scenario A: entity and animal are nodes, add_edge(entity -> animal) has
\* succeeded and the root set is {entity}.
C6_Witness ==
    /\ last = [op |-> "add_edge", result |-> "ok"]
    /\ 1 \in DOMAIN heap /\ 2 \in DOMAIN heap
    /\ heap[1].synset_name = "entity.n.01"
    /\ heap[2].synset_name = "animal.n.01"
    /\ graph_edges = {<<1, 2>>}
    /\ Roots = {1}

\* C7: an add_edge call that fails, whatever the failure, leaves nodes,
\* edges and the backing structure as they were before the call.
C7_AddEdgeAtomicOnFailure ==
    [][(AddEdge /\ last'.result # "ok") => GraphUnchanged]_vars

\* C8: for distinct member nodes s and t with the sense of s on the hypernym
\* path of t, if t is already reachable from s then add_edge(s -> t) fails
\* with RedundantEdge and leaves nodes, edges and the backing structure
\* unchanged.
C8_RedundantEdgeRejected ==
    \A s \in DOMAIN heap : \A t \in DOMAIN heap \ {s} :
    \A info \in EdgeInfos :
      (/\ Member(s) /\ Member(t)
       /\ OnHypernymPath(s, t)
       /\ Reachable(s, t))
      => add_edge(heap, self, ConceptEdge(s, t, info))
            = [G |-> self, result |-> "RedundantEdge"]

\* Scenario B: with entity -> animal -> dog in place, an add_edge call has
\* just been refused as redundant.
C8_Witness ==
    /\ last = [op |-> "add_edge", result |-> "RedundantEdge"]
    /\ 3 \in DOMAIN heap
    /\ heap[3].synset_name = "dog.n.01"
    /\ graph_edges = {<<1, 2>>, <<2, 3>>}
    /\ edges = {ConceptEdge(1, 2, "None"), ConceptEdge(2, 3, "None")}

\* C9 as claimed: add_edge(s -> t) between member nodes where s is already
\* reachable as a descendant of t fails with CycleDetected.
C9_CycleDetectedAlways ==
    [][last'.op = "add_edge" =>
       \A s \in DOMAIN heap : \A t \in DOMAIN heap \ {s} :
       \A info \in EdgeInfos :
         (/\ Member(s) /\ Member(t)
          /\ Reachable(t, s)
          /\ AddEdgeCall(s, t, info))
         => last'.result = "CycleDetected"]_vars

\* C9 as amended: add_edge(s -> t) between distinct member nodes where s is
\* already reachable as a descendant of t fails, and leaves the graph as it
\* was: with NotAHypernym when the sense of s is not on the hypernym path of
\* t (Scenario C), with CycleDetected when it is.
C9_CycleDetectedAfterHypernymCheck ==
    \A s \in DOMAIN heap : \A t \in DOMAIN heap \ {s} :
    \A info \in EdgeInfos :
      (Member(s) /\ Member(t) /\ Reachable(t, s))
      => add_edge(heap, self, ConceptEdge(s, t, info))
            = [G |-> self,
               result |-> IF OnHypernymPath(s, t)
                          THEN "CycleDetected" ELSE "NotAHypernym"]

\* An add_edge call has just been refused with CycleDetected.
C9_Witness == last = [op |-> "add_edge", result |-> "CycleDetected"]

\* C10: when add_descriptor_as_new_node ends with a failure of its inner
\* add_node or add_edge, nodes, edges and the backing structure are what
\* they were before the call: the new Concept is not left in the graph.
C10_NoPartialState ==
    [][(AddDescriptorAsNewNode
          /\ last'.result \notin {"ok", "printed", "NodeNotFound"})
       => GraphUnchanged]_vars

(***************************************************************************)
(* C11 - C20                                                               *)
(***************************************************************************)
\* C11: in every reachable state the vertex set of the backing structure is
\* the set of ids of the Concepts in nodes, and its edge set is the set of
\* (source id, target id) pairs of the Relations in edges.
C11_CollectionsConsistent ==
    /\ graph_nodes = nodes
    /\ graph_edges = {<<r.source, r.target>> : r \in edges}

(***************************************************************************)
(* ConceptEdge.__eq__ on its own: nodes are constructed, and edges over    *)
(* them, with and without a label, are compared.                           *)
(***************************************************************************)
\* The info argument of ConceptEdge: left out (None) or given.
EdgeLabels == {"None", "is_a"}

\* ConceptEdge(s1, t1, i1) == ConceptEdge(s2, t2, i2)
CompareEdges ==
    \E s1 \in DOMAIN heap, t1 \in DOMAIN heap,
       s2 \in DOMAIN heap, t2 \in DOMAIN heap,
       i1 \in EdgeLabels, i2 \in EdgeLabels :
      LET e     == ConceptEdge(s1, t1, i1)
          other == ConceptEdge(s2, t2, i2)
      IN  /\ last' = [op |-> "ConceptEdge.__eq__", e |-> e, other |-> other,
                      result |-> ConceptEdge_eq(heap, e, other)]
          /\ UNCHANGED <<siguiente_id, heap, nodes, edges,
                         graph_nodes, graph_edges>>

EqNext == NewConceptNode \/ CompareEdges

EqSpec == Init /\ [][EqNext]_vars

\* r1 and r2 have equal sources, equal targets and equal labels, an absent
\* label being equal to an absent label only.
ThreeWayEqual(r1, r2) ==
    /\ ConceptNode_eq(heap, r1.source, r2.source)
    /\ ConceptNode_eq(heap, r1.target, r2.target)
    /\ r1.label = r2.label

\* C12: r1 == r2 holds iff the sources are equal, the targets are equal and
\* the labels are equal, also when a label is absent on one or both sides.
C12_EdgeEqualityThreeWay ==
    last.op = "ConceptEdge.__eq__"
    => (last.result <=> ThreeWayEqual(last.e, last.other))

(***************************************************************************)
(* ConceptNode on its own: nodes are built by the constructor and by       *)
(* from_descriptor, and add_descriptor is called on them.                  *)
(***************************************************************************)
\* Returns "True" or the error raised.
valid_add_descriptor(H, c, descriptor) ==
    IF H[c].synset_name \notin Range(wn_synsets(descriptor))
    THEN "NotSynonymous" ELSE "True"

\* add_descriptor that skips the test for a descriptor already present.
add_descriptor_no_presence_test(H, c, descriptor) ==
    IF valid_add_descriptor(H, c, descriptor) # "True"
    THEN [H |-> H, result |-> "NotSynonymous"]
    ELSE [H |-> H, result |-> "AttributeError"]

\* add_descriptor: the objects afterwards and how the call ended.
\* self.descriptors is a list, and a list has no method add: the call
\* self.descriptors.add(descriptor) raises AttributeError.
add_descriptor(H, c, descriptor) ==
    IF descriptor \in Range(H[c].descriptors)
    THEN [H |-> H, result |-> "ok"]
    ELSE IF valid_add_descriptor(H, c, descriptor) # "True"
    THEN [H |-> H, result |-> "NotSynonymous"]
    ELSE [H |-> H, result |-> "AttributeError"]

\* Words handed to add_descriptor.
Descriptors == {"animal", "creature", "dog", "bank", "xyzzy"}

\* Words handed to from_descriptor.
LookupWords == {"creature", "dog", "bank", "run", "xyzzy"}

\* Concepts with two synonyms, built directly.
SynonymArgs == { <<{"animal", "creature"}, "animal.n.01">> }

\* ConceptNode(descriptors, name) with two descriptors; list(descriptors)
\* enumerates the set in an order the program does not choose.
NewSynonymNode ==
    \E args \in SynonymArgs :
      LET r == ConceptNode_result(args[1], args[2]) IN
        /\ siguiente_id <= MaxObjects
        /\ siguiente_id' = siguiente_id + 1
        /\ \E ds \in ListsOf(args[1]) :
             heap' = IF r = "ok"
                     THEN heap @@ (siguiente_id :>
                            [descriptors |-> ds, synset_name |-> args[2]])
                     ELSE heap
        /\ last' = [op |-> "ConceptNode", result |-> r]
        /\ UNCHANGED <<nodes, edges, graph_nodes, graph_edges>>

\* node.add_descriptor(descriptor)
AddDescriptor ==
    \E c \in DOMAIN heap, descriptor \in Descriptors :
      LET r == add_descriptor(heap, c, descriptor) IN
        /\ heap' = r.H
        /\ last' = [op |-> "add_descriptor", node |-> c,
                    descriptor |-> descriptor,
                    before |-> heap[c].descriptors, result |-> r.result]
        /\ UNCHANGED <<siguiente_id, nodes, edges, graph_nodes, graph_edges>>

\* C13: add_descriptor(x) with x not among the labels of c: when the senses
\* of x include the canonical sense of c the call returns without error and
\* the labels are the previous ones with x appended; otherwise it fails
\* with NotSynonymous and the labels are unchanged.
C13_AddDescriptorAppends ==
    (last.op = "add_descriptor"
        /\ last.descriptor \notin Range(last.before))
    => IF heap[last.node].synset_name
            \in Range(wn_synsets(last.descriptor))
       THEN /\ last.result = "ok"
            /\ heap[last.node].descriptors
                  = Append(last.before, last.descriptor)
       ELSE /\ last.result = "NotSynonymous"
            /\ heap[last.node].descriptors = last.before

\* wn.synset(name).lemma_names()
wn_lemma_names(name) ==
    CASE name = "entity.n.01" -> <<"entity">>
      [] name = "animal.n.01" -> <<"animal", "animate_being", "beast",
                                   "brute", "creature", "fauna">>
      [] name = "dog.n.01"    -> <<"dog", "domestic_dog",
                                   "Canis_familiaris">>
      [] name = "plant.n.01"  -> <<"plant", "works", "industrial_plant">>
      [] name = "bank.n.01"   -> <<"bank">>
      [] name = "bank.n.02"   -> <<"depository_financial_institution", "bank",
                                   "banking_concern", "banking_company">>
      [] name = "run.v.01"    -> <<"run">>
      [] OTHER                -> <<>>

\* all_synonyms that stops before the last synset.
all_synonyms_without_last(descriptor) ==
    LET synsets == wn_synsets(descriptor)
    IN  [i \in 1..(Len(synsets) - 1) |->
            [name |-> synsets[i], synonyms |-> wn_lemma_names(synsets[i])]]

\* The list all_synonyms that from_descriptor joins into the message of its
\* "has multiple meanings" exception: one entry per synset, the name of the
\* synset and its lemma names.
all_synonyms(descriptor) ==
    LET synsets == wn_synsets(descriptor)
    IN  [i \in DOMAIN synsets |->
            [name |-> synsets[i], synonyms |-> wn_lemma_names(synsets[i])]]

\* ConceptNode.from_descriptor(descriptor)
FromDescriptor ==
    \E descriptor \in LookupWords :
      LET fd == from_descriptor(descriptor)
          cr == ConceptNode_result({descriptor}, fd.name)
          call(res, msg) ==
              [op |-> "from_descriptor", descriptor |-> descriptor,
               node |-> siguiente_id, result |-> res, message |-> msg]
      IN
        IF fd.error # ""
        THEN /\ last' = call(fd.error,
                             IF fd.error = "AmbiguousLabel"
                             THEN all_synonyms(descriptor) ELSE <<>>)
             /\ UNCHANGED <<siguiente_id, heap, nodes, edges,
                            graph_nodes, graph_edges>>
        ELSE /\ siguiente_id <= MaxObjects
             /\ siguiente_id' = siguiente_id + 1
             /\ heap' = IF cr = "ok"
                        THEN heap @@ (siguiente_id :>
                               [descriptors |-> <<descriptor>>,
                                synset_name |-> fd.name])
                        ELSE heap
             /\ last' = call(cr, <<>>)
             /\ UNCHANGED <<nodes, edges, graph_nodes, graph_edges>>

NodeNext == NewConceptNode \/ NewSynonymNode \/ FromDescriptor \/ AddDescriptor

NodeSpec == Init /\ [][NodeNext]_vars

\* C14: add_descriptor(x) with x already among the labels of c, called once
\* or twice, raises no error and leaves the labels of c, contents and
\* order, as they were.
C14_AddDescriptorIdempotent ==
    /\ \A c \in DOMAIN heap : \A x \in Range(heap[c].descriptors) :
         LET once  == add_descriptor(heap, c, x)
             twice == add_descriptor(once.H, c, x)
         IN  /\ once.result = "ok"
             /\ once.H[c].descriptors = heap[c].descriptors
             /\ twice.result = "ok"
             /\ twice.H[c].descriptors = heap[c].descriptors
    /\ (last.op = "add_descriptor"
           /\ last.descriptor \in Range(last.before))
       => /\ last.result = "ok"
          /\ heap[last.node].descriptors = last.before

\* add_descriptor has just been called with the second of the two labels of
\* a node.
C14_Witness ==
    /\ last.op = "add_descriptor"
    /\ Len(last.before) = 2
    /\ last.descriptor = last.before[2]
    /\ last.result = "ok"

\* C15: every Concept built by the constructor or by from_descriptor has,
\* after any add_descriptor calls on it, at least one label, a canonical
\* sense that is a noun sense, and only labels whose senses include its
\* canonical sense.
C15_ConceptValid ==
    \A c \in DOMAIN heap :
        /\ Len(heap[c].descriptors) # 0
        /\ heap[c].synset_name \in SynsetNames
        /\ wn_pos(heap[c].synset_name) = "n"
        /\ \A x \in Range(heap[c].descriptors) :
               heap[c].synset_name \in Range(wn_synsets(x))

\* A node built by from_descriptor is in place next to another node, and an
\* add_descriptor call on a node has just failed.
C15_Witness ==
    /\ last.op = "add_descriptor"
    /\ last.result # "ok"
    /\ \E c \in DOMAIN heap : heap[c].descriptors = <<"creature">>
    /\ Cardinality(DOMAIN heap) >= 2

\* The payload lists every sense of the word with all of its synonyms.
ListsEveryCandidate(message, descriptor) ==
    \A sense \in Range(wn_synsets(descriptor)) :
        \E i \in DOMAIN message :
            /\ message[i].name = sense
            /\ Range(message[i].synonyms) = Range(wn_lemma_names(sense))

\* C16 as claimed: from_descriptor fails with UnknownLabel for a word with
\* no sense, returns a Concept with that one label and that sense for a
\* word with exactly one sense, and fails with AmbiguousLabel, listing
\* every candidate sense with its synonyms, for a word with two or more.
C16_OutcomeBySenseCount ==
    last.op = "from_descriptor"
    => LET synsets == wn_synsets(last.descriptor)
       IN  IF Len(synsets) = 0 THEN last.result = "UnknownLabel"
           ELSE IF Len(synsets) = 1
           THEN /\ last.result = "ok"
                /\ last.node \in DOMAIN heap
                /\ heap[last.node] = [descriptors |-> <<last.descriptor>>,
                                       synset_name |-> synsets[1]]
           ELSE /\ last.result = "AmbiguousLabel"
                /\ ListsEveryCandidate(last.message, last.descriptor)

\* C16 as amended: as claimed, except that a word whose one sense is not a
\* noun sense is refused by the constructor and no Concept is built.
C16_OutcomeBySenseCountAndNoun ==
    last.op = "from_descriptor"
    => LET synsets == wn_synsets(last.descriptor)
       IN  IF Len(synsets) = 0 THEN last.result = "UnknownLabel"
           ELSE IF Len(synsets) = 1 /\ wn_pos(synsets[1]) = "n"
           THEN /\ last.result = "ok"
                /\ last.node \in DOMAIN heap
                /\ heap[last.node] = [descriptors |-> <<last.descriptor>>,
                                       synset_name |-> synsets[1]]
           ELSE IF Len(synsets) = 1
           THEN /\ last.result = "NotASynsetName"
                /\ last.node \notin DOMAIN heap
           ELSE /\ last.result = "AmbiguousLabel"
                /\ ListsEveryCandidate(last.message, last.descriptor)

\* Scenario D: from_descriptor("bank") has just failed with AmbiguousLabel
\* and a payload of two candidates.
C16_Witness ==
    /\ last.op = "from_descriptor"
    /\ last.descriptor = "bank"
    /\ last.result = "AmbiguousLabel"
    /\ Len(last.message) = 2

(***************************************************************************)
(* add_descriptor_to_node: nodes are built and added to the graph, and     *)
(* synonyms are added to them through the graph.                           *)
(***************************************************************************)
\* A ConceptNode used as a look-up key: its hash is that of its
\* id_networkx, but neither int.__eq__ nor ConceptNode.__eq__ compares an
\* int with a ConceptNode, so it is equal to no int key.
py_node(n) == <<"ConceptNode", n>>

\* self.graph.nodes[id]['descriptors']: add_node stored the attributes of
\* the node by reference, so this is the list of the node itself.
stored_descriptors(H, G, id) == H[id].descriptors

\* add_descriptor_to_node: the objects afterwards and how the call ended.
\* An exception of target_node.add_descriptor is printed; the update of the
\* stored list calls the method add that a list does not have.
add_descriptor_to_node(H, G, descriptor, target_node) ==
    IF ~DiGraph_contains(G, py_node(target_node))
    THEN [H |-> H, result |-> "NodeNotFound"]
    ELSE [H |-> add_descriptor(H, target_node, descriptor).H,
          result |-> "AttributeError"]

\* graph.add_descriptor_to_node(descriptor, target_node)
AddDescriptorToNode ==
    \E descriptor \in Descriptors, target_node \in DOMAIN heap :
      LET r == add_descriptor_to_node(heap, self, descriptor, target_node) IN
        /\ heap' = r.H
        /\ last' = [op |-> "add_descriptor_to_node", node |-> target_node,
                    descriptor |-> descriptor,
                    before |-> heap[target_node].descriptors,
                    result |-> r.result]
        /\ UNCHANGED <<siguiente_id, nodes, edges, graph_nodes, graph_edges>>

LabelNext == NewConceptNode \/ AddNode \/ AddDescriptorToNode

LabelSpec == Init /\ [][LabelNext]_vars

\* C17: add_descriptor_to_node fails with NodeNotFound when the target is
\* not a member of the graph; when it is a member and the label is a
\* synonym it does not have yet, the call succeeds, and afterwards the
\* labels of the target and the labels stored for its id in the backing
\* structure both contain the new label and are equal.
C17_AddDescriptorToNode ==
    last.op = "add_descriptor_to_node"
    => IF ~Member(last.node) THEN last.result = "NodeNotFound"
       ELSE (/\ last.descriptor \notin Range(last.before)
             /\ heap[last.node].synset_name
                   \in Range(wn_synsets(last.descriptor)))
            => /\ last.result = "ok"
               /\ last.descriptor \in Range(heap[last.node].descriptors)
               /\ stored_descriptors(heap, self, last.node)
                     = heap[last.node].descriptors

(***************************************************************************)
(* write_to_json and from_json: a graph is built, written out, and read    *)
(* back in the same process.                                               *)
(***************************************************************************)
\* json.dumps(node_link_data(self.graph)), the text write_to_json writes:
\* for every vertex its id and the attributes add_node stored, in the order
\* 'order' in which the DiGraph enumerates its vertices, and the edges as
\* pairs of ids.
write_to_json(H, G, order) ==
    [nodes |-> [i \in DOMAIN order |->
                   [id |-> order[i],
                    descriptors |-> H[order[i]].descriptors,
                    synset_name |-> H[order[i]].synset_name]],
     links |-> G.graph_edges]

\* Returns the node of a_nodeset with this id_networkx, and None when the
\* loop ends without one.
getNodeFromId(id_networkx, a_nodeset) ==
    IF \E x \in a_nodeset : x = id_networkx
    THEN CHOOSE x \in a_nodeset : x = id_networkx
    ELSE "None"

\* from_json(json_data) with ConceptNode.siguiente_id = next_id: the i-th
\* vertex of the document becomes a new ConceptNode with the id
\* next_id + i - 1 and, for its descriptors, the list lists[i] made from
\* set(d); the edges are rebuilt by looking the ids of the document up
\* among the new nodes.  The DiGraph read from the document is kept as the
\* graph of the result.
from_json(doc, next_id, lists) ==
    LET n        == Len(doc.nodes)
        new_id   == [i \in 1..n |-> next_id + i - 1]
        node_set == Range(new_id)
        H        == [c \in node_set |->
                       LET i == CHOOSE j \in 1..n : new_id[j] = c
                       IN  [descriptors |-> lists[i],
                            synset_name |-> doc.nodes[i].synset_name]]
        ends(x)  == [source |-> getNodeFromId(x[1], node_set),
                     target |-> getNodeFromId(x[2], node_set)]
        graph    == [nodes |-> node_set,
                     edges |-> {ConceptEdge(ends(x).source, ends(x).target,
                                            "None") : x \in doc.links},
                     graph_nodes |-> {doc.nodes[i].id : i \in 1..n},
                     graph_edges |-> doc.links]
    IN  IF \E x \in doc.links :
              ends(x).source = "None" \/ ends(x).target = "None"
        THEN [result |-> "InvalidArgumentType", siguiente_id |-> next_id + n]
        ELSE [result |-> "ok", siguiente_id |-> next_id + n,
              H |-> H, G |-> graph]

\* The lists that list(set(d)) can give for the vertices of a document.
DescriptorLists(doc) ==
    {l \in [DOMAIN doc.nodes ->
               UNION {ListsOf(Range(doc.nodes[i].descriptors)) :
                        i \in DOMAIN doc.nodes}] :
        \A i \in DOMAIN doc.nodes :
            Range(l[i]) = Range(doc.nodes[i].descriptors)}

\* graph.write_to_json(), then ConceptGraph.from_json of the text written.
\* The new graph and its nodes are kept in the record of the call.
FromJson ==
    \E order \in ListsOf(graph_nodes) :
      LET doc == write_to_json(heap, self, order) IN
      \E lists \in DescriptorLists(doc) :
        LET r == from_json(doc, siguiente_id, lists) IN
          /\ siguiente_id <= MaxObjects + 1
          /\ siguiente_id' = r.siguiente_id
          /\ last' = [op |-> "from_json", doc |-> doc, result |-> r.result,
                      new |-> IF r.result = "ok"
                              THEN [H |-> r.H, G |-> r.G] ELSE "None"]
          /\ UNCHANGED <<heap, nodes, edges, graph_nodes, graph_edges>>

JsonNext == NewConceptNode \/ AddNode \/ AddEdge \/ FromJson

JsonSpec == Init /\ [][JsonNext]_vars

\* The label set and the sense of node c of the objects H.
Content(H, c) ==
    [labels |-> Range(H[c].descriptors), sense |-> H[c].synset_name]

\* The graph is one the operations are meant to build: collections and
\* backing structure agree, no cycle, no shared label or sense, one root.
ValidGraph ==
    /\ C11_CollectionsConsistent
    /\ C2_Acyclic
    /\ C3_DescriptorUniqueness
    /\ Cardinality(Roots) = 1

\* C18: from_json of the document written for a valid graph with at least
\* one edge succeeds, with the nodes of the original by labels and sense,
\* with the edges of the original by the contents of their endpoints, and
\* with every endpoint a node of the new graph.
C18_RoundTrip ==
    (last.op = "from_json" /\ ValidGraph /\ edges # {})
    => /\ last.result = "ok"
       /\ {Content(last.new.H, c) : c \in last.new.G.nodes}
             = {Content(heap, c) : c \in nodes}
       /\ \A r \in last.new.G.edges :
             r.source \in last.new.G.nodes /\ r.target \in last.new.G.nodes
       /\ {<<Content(last.new.H, r.source), Content(last.new.H, r.target)>> :
               r \in last.new.G.edges}
             = {<<Content(heap, r.source), Content(heap, r.target)>> :
                  r \in edges}

(***************************************************************************)
(* C19, C20                                                                *)
(***************************************************************************)
\* The vertices with no incoming edge once the edge (s, t) is inserted.
RootsWith(s, t) ==
    {v \in graph_nodes :
        ~\E e \in graph_edges \cup {<<s, t>>} : e[2] = v}

\* The outcome the validation order prescribes for add_edge(s -> t).
FirstFailingCheck(s, t) ==
    IF ~Member(s) \/ ~Member(t) THEN "NodeNotFound"
    ELSE IF ~OnHypernymPath(s, t) THEN "NotAHypernym"
    ELSE IF Reachable(s, t) THEN "RedundantEdge"
    ELSE IF Reachable(t, s) THEN "CycleDetected"
    ELSE IF Cardinality(RootsWith(s, t)) > 1 THEN "MultipleRoots"
    ELSE "ok"

\* C19: every add_edge call reports the failure of the first check that
\* fails, in the order: source a member, target a member (NodeNotFound);
\* source on the hypernym path of the target (NotAHypernym); target not
\* reachable from source (RedundantEdge); source not reachable from target
\* (CycleDetected); at most one root after the insertion (MultipleRoots);
\* and a call that fails one of the first four leaves the backing
\* structure as it was.
C19_ValidationOrder ==
    [][last'.op = "add_edge" =>
       \A s \in DOMAIN heap : \A t \in DOMAIN heap : \A info \in EdgeInfos :
         AddEdgeCall(s, t, info)
         => /\ last'.result = FirstFailingCheck(s, t)
            /\ last'.result \in {"NodeNotFound", "NotAHypernym",
                                  "RedundantEdge", "CycleDetected"}
               => UNCHANGED <<graph_nodes, graph_edges>>]_vars

\* C19 for the calls between two distinct nodes on a backing structure
\* without a cycle.
C19_ValidationOrderAcyclic ==
    [][(last'.op = "add_edge" /\ C2_Acyclic) =>
       \A s \in DOMAIN heap : \A t \in DOMAIN heap \ {s} :
       \A info \in EdgeInfos :
         AddEdgeCall(s, t, info)
         => /\ last'.result = FirstFailingCheck(s, t)
            /\ last'.result \in {"NodeNotFound", "NotAHypernym",
                                  "RedundantEdge", "CycleDetected"}
               => UNCHANGED <<graph_nodes, graph_edges>>]_vars

(***************************************************************************)
(* Two ConceptGraph instances built with no arguments.                     *)
(***************************************************************************)
\* The default arguments of __init__: set(), set() and nx.DiGraph() are
\* evaluated once, when the def statement runs, and every call that leaves
\* an argument out receives these same objects.  They are named here; their
\* contents are the variables nodes, edges, graph_nodes and graph_edges.
DefaultArguments ==
    [nodes |-> "default nodes", edges |-> "default edges",
     graph |-> "default graph"]

\* ConceptGraph.__init__: the instance keeps the objects it was handed.
ConceptGraph_init(nodes_arg, edges_arg, graph_arg) ==
    [nodes |-> nodes_arg, edges |-> edges_arg, graph |-> graph_arg]

\* g1 = ConceptGraph(); g2 = ConceptGraph()
Instances ==
    [g1 |-> ConceptGraph_init(DefaultArguments.nodes, DefaultArguments.edges,
                              DefaultArguments.graph),
     g2 |-> ConceptGraph_init(DefaultArguments.nodes, DefaultArguments.edges,
                              DefaultArguments.graph)]

\* The contents of an object.
Contents(object) ==
    CASE object = DefaultArguments.nodes -> nodes
      [] object = DefaultArguments.edges -> edges
      [] object = DefaultArguments.graph ->
            [graph_nodes |-> graph_nodes, graph_edges |-> graph_edges]

\* The instance g as add_node and add_edge see it.
View(g) ==
    [nodes |-> Contents(Instances[g].nodes),
     edges |-> Contents(Instances[g].edges),
     graph_nodes |-> Contents(Instances[g].graph).graph_nodes,
     graph_edges |-> Contents(Instances[g].graph).graph_edges]

\* g1.add_node(new_node)
AddNodeOnG1 ==
    \E new_node \in DOMAIN heap :
      LET r == add_node(heap, View("g1"), new_node) IN
        /\ SetGraph(r.G)
        /\ last' = [op |-> "add_node", graph |-> "g1", result |-> r.result]
        /\ UNCHANGED <<siguiente_id, heap>>

\* g1.add_edge(ConceptEdge(source, target, info))
AddEdgeOnG1 ==
    \E source \in DOMAIN heap, target \in DOMAIN heap, info \in EdgeInfos :
      LET r == add_edge(heap, View("g1"),
                        ConceptEdge(source, target, info)) IN
        /\ SetGraph(r.G)
        /\ last' = [op |-> "add_edge", graph |-> "g1", result |-> r.result]
        /\ UNCHANGED <<siguiente_id, heap>>

TwoGraphsNext == NewConceptNode \/ AddNodeOnG1 \/ AddEdgeOnG1

TwoGraphsSpec == Init /\ [][TwoGraphsNext]_vars

\* C20: whatever add_node and add_edge calls are made on g1, the nodes, the
\* edges and the backing structure of g2 stay empty.
C20_InstancesIsolated ==
    View("g2") = [nodes |-> {}, edges |-> {},
                  graph_nodes |-> {}, graph_edges |-> {}]

====
